---- MODULE Spec2Model ----
(***************************************************************************)
(* Model of CoralLabelTransfer: the SuperPixel region builder              *)
(* (src/SuperPixel.py) and the train / classify orchestration              *)
(* (src/transfer/transfer.py).                                             *)
(*                                                                         *)
(* Conventions.                                                            *)
(*  - An id map (mask_img, segment_mask) is a function from the pixels of  *)
(*    a small grid, Rows \X Cols, to region ids.                           *)
(*  - A numeric array whose values come from an external descriptor (HOG,  *)
(*    LBP, colour histogram) is represented by its length; concatenation   *)
(*    is then addition of lengths.                                         *)
(*  - A Python exception is a record [kind |-> <exception class>];         *)
(*    Python's None is the record None.                                    *)
(*  - The source image is represented by what checkSuperPixel reads of it: *)
(*    whether it has a non-zero value, and its shape.                      *)
(***************************************************************************)
EXTENDS Integers, Sequences, FiniteSets, TLC

\* ------------------------------------------------------------------ bounds
MaxRow == 2
MaxCol == 2
MaxLbp == 1
MaxStem == 2
MaxRegions == 2
NumImages == 2
Processors == 2

Rows == 0..MaxRow
Cols == 0..MaxCol
Pixels == Rows \X Cols
SegIds == {0, 1}
\* the id under construction; id 0 stands for every other region
BuildIds == {1}

None == [kind |-> "None"]

\* one region build (Spec)
VARIABLES mask_img, id_num, call, bounds, built, ret
\* feature generation under one configuration (SpecFeatures)
VARIABLES avg_size, feats
\* image and mask file names (SpecFiles)
VARIABLES image_dir, listing, images, mask_path

\* mask reconstruction of one image (SpecPaint)
VARIABLES paint_pc, segment_mask, superpixels, label_db, labels, pred, predictions, mask
\* one invocation of main (SpecMain)
VARIABLES mode, main_pc, main_done, mosaic, train, classifier, saved, shared, tasks, written

builderVars == <<mask_img, id_num, call, bounds, built, ret>>
paintVars ==
  <<paint_pc, segment_mask, superpixels, label_db, labels, pred, predictions, mask>>
mainVars ==
  <<mode, main_pc, main_done, mosaic, train, classifier, saved, shared, tasks, written>>
featureVars == <<avg_size, feats>>
fileVars == <<image_dir, listing, images, mask_path>>
vars == <<builderVars, featureVars, fileVars, paintVars, mainVars>>

\* ------------------------------------------------------- SuperPixel.py

\* hog_args / lbp_args (module parameters)
hog_pixels_per_cell == 8
hog_cells_per_block == 3
hog_orientations == 9
hist_bins == 64
min_img_side == 20
img_channels == 3

\* mask[i,:].any() and mask[:,j].any() for mask = (mask_img == id)
RowAny(m, id, i) == \E j \in Cols : m[<<i, j>>] = id
ColAny(m, id, j) == \E i \in Rows : m[<<i, j>>] = id

\* first loop of getBoundingBox: i is the loop index, mn/mx the running
\* min_extent[0] / max_extent[0]; the elif branch is the loop's break.
RECURSIVE scanRows(_, _, _, _, _)
scanRows(m, id, i, mn, mx) ==
  IF i > MaxRow THEN <<mn, mx>>
  ELSE IF RowAny(m, id, i)
       THEN scanRows(m, id, i + 1, IF mn = 0 THEN i ELSE mn, i)
       ELSE IF mx # 0 THEN <<mn, mx>>
            ELSE scanRows(m, id, i + 1, mn, mx)

\* second loop of getBoundingBox
RECURSIVE scanCols(_, _, _, _, _)
scanCols(m, id, j, mn, mx) ==
  IF j > MaxCol THEN <<mn, mx>>
  ELSE IF ColAny(m, id, j)
       THEN scanCols(m, id, j + 1, IF mn = 0 THEN j ELSE mn, j)
       ELSE IF mx # 0 THEN <<mn, mx>>
            ELSE scanCols(m, id, j + 1, mn, mx)

\* returns (min_extent, max_extent) = ((row_min, col_min), (row_max, col_max))
getBoundingBox(m, id) ==
  LET r == scanRows(m, id, 0, 0, 0)
      c == scanCols(m, id, 0, 0, 0)
  IN  << <<r[1], c[1]>>, <<r[2], c[2]>> >>

\* checkBounds with <= in place of <
checkBoundsStrictOff(b) ==
  /\ 0 <= b[1][1] /\ b[1][1] <= b[2][1]
  /\ 0 <= b[1][2] /\ b[1][2] <= b[2][2]

\* TRUE when checkBounds returns, FALSE when it raises ValueError
checkBounds(b) ==
  /\ 0 <= b[1][1] /\ b[1][1] < b[2][1]
  /\ 0 <= b[1][2] /\ b[1][2] < b[2][2]

\* the pixels of mask_img[row_min:row_max, col_min:col_max] (half-open slices)
CropPixels(b) ==
  {p \in Pixels : /\ b[1][1] <= p[1] /\ p[1] < b[2][1]
                  /\ b[1][2] <= p[2] /\ p[2] < b[2][2]}

\* cropMask: the boolean array (msk == id), indexed by the original pixel
cropMask(m, id, b) == [p \in CropPixels(b) |-> m[p] = id]

\* checkSuperPixel: "ok" or the ValueError message
checkSuperPixel(img) ==
  IF ~img.any THEN "No input image data given."
  ELSE IF Len(img.shape) # 3 THEN "Misshapen image."
  ELSE IF img.shape[1] <= min_img_side THEN "Input image too short."
  ELSE IF img.shape[2] <= min_img_side THEN "Input image too narrow."
  ELSE IF img.shape[3] # img_channels THEN "Not enough channels in input image."
  ELSE "ok"

\* feature.hog(gray, **hog_args) on an image of size (w, h): its length
hogLen(size) ==
  LET cells_c == size[1] \div hog_pixels_per_cell
      cells_r == size[2] \div hog_pixels_per_cell
      blocks_c == cells_c - hog_cells_per_block + 1
      blocks_r == cells_r - hog_cells_per_block + 1
  IN  blocks_r * blocks_c * hog_cells_per_block * hog_cells_per_block
        * hog_orientations

\* range(-40, 60, 20)
Thetas == <<-40, -20, 0, 20, 40>>

\* the three arrays appended to `features` for the rotation Thetas[k];
\* lbp[k] is lbp.max() of that rotation's local_binary_pattern image.
perTheta(size, lbp, k) ==
  LET hog == hogLen(size)
      lbp_n_bins == lbp[k] + 1
      lbp_hist == lbp_n_bins
      hist == hist_bins + hist_bins + hist_bins
  IN  <<hog, lbp_hist, hist>>

SumSeq(s) ==
  LET RECURSIVE sum(_)
      sum(k) == IF k = 0 THEN 0 ELSE s[k] + sum(k - 1)
  IN  sum(Len(s))

\* generateFeatures: `parts` is the list `features` (15 arrays), `result`
\* the concatenation.
generateFeatures(size, lbp) ==
  LET parts == [n \in 1..(3 * Len(Thetas)) |->
                  perTheta(size, lbp, ((n - 1) \div 3) + 1)[((n - 1) % 3) + 1]]
  IN  [parts |-> parts, result |-> SumSeq(parts)]

\* stats.mode over the selected values: the most frequent value, the
\* lowest one on a tie.
modeOf(lbl, sel) ==
  LET cnt(v) == Cardinality({p \in sel : lbl[p] = v})
      vals == {lbl[p] : p \in sel}
  IN  CHOOSE v \in vals :
        \A w \in vals : cnt(v) > cnt(w) \/ (cnt(v) = cnt(w) /\ v <= w)

\* findLabel answering label 0 for an empty selection instead of raising
findLabelEmptyDefault(lbl_img, b, mk) ==
  IF lbl_img.kind = "None" THEN [kind |-> "TypeError"]
  ELSE LET sel == {p \in DOMAIN mk : mk[p]}
       IN  IF sel = {} THEN [kind |-> "ok", label |-> 0]
           ELSE [kind |-> "ok", label |-> modeOf(lbl_img.px, sel)]

\* findLabel: lbl_img[...] on None raises TypeError; mode[0][0] on an
\* empty selection raises IndexError.
findLabel(lbl_img, b, mk) ==
  IF lbl_img.kind = "None" THEN [kind |-> "TypeError"]
  ELSE LET sel == {p \in DOMAIN mk : mk[p]}
       IN  IF sel = {} THEN [kind |-> "IndexError"]
           ELSE [kind |-> "ok", label |-> modeOf(lbl_img.px, sel)]

\* SuperPixel.__init__: the constructed object, or the exception raised
SuperPixel(id, src_img, lbl_img, m, size, lbp) ==
  LET chk == checkSuperPixel(src_img) IN
  IF chk # "ok" THEN [kind |-> "ValueError", msg |-> chk]
  ELSE
    LET b == getBoundingBox(m, id) IN
    IF ~checkBounds(b) THEN [kind |-> "ValueError", msg |-> "No region found."]
    ELSE
      LET mk == cropMask(m, id, b)
          f == generateFeatures(size, lbp)
          l == findLabel(lbl_img, b, mk)
      IN  IF l.kind # "ok" THEN [kind |-> l.kind, msg |-> "findLabel"]
          ELSE [kind |-> "SuperPixel", id |-> id, size |-> size,
                bounds |-> b, mask |-> mk, features |-> f.result,
                parts |-> f.parts, label |-> l.label]

\* ------------------------------------------------- transfer.py: create_spixel

\* create_spixel: the SuperPixel, None after a ValueError (the except
\* clause), or any other exception, which propagates to the caller.
create_spixel(id, src_img, lbl_img, m, size, lbp) ==
  LET r == SuperPixel(id, src_img, lbl_img, m, size, lbp)
  IN  IF r.kind = "ValueError" THEN None ELSE r

\* ------------------------------------------------- inputs of the builder

ImgOk == [any |-> TRUE, shape |-> <<21, 21, 3>>]
Images ==
  {ImgOk,
   [any |-> FALSE, shape |-> <<21, 21, 3>>],
   [any |-> TRUE, shape |-> <<21, 21>>],
   [any |-> TRUE, shape |-> <<20, 21, 3>>],
   [any |-> TRUE, shape |-> <<21, 20, 3>>],
   [any |-> TRUE, shape |-> <<21, 21, 4>>]}

\* ground-truth maps: label 1 left of column k, label 2 from column k on
LblImg(k) == [kind |-> "array", px |-> [p \in Pixels |-> IF p[2] < k THEN 1 ELSE 2]]
LblImgs == {LblImg(k) : k \in 1..2}

Sizes == {<<24, 24>>, <<32, 24>>}
BuildSizes == {<<24, 24>>}
LbpVals == 0..MaxLbp
LbpSamples == {[k \in 1..Len(Thetas) |-> v] : v \in LbpVals}

NoCall == [site |-> "none"]
NotRead == [read |-> FALSE, filelist |-> {}]
NoBounds == << <<0, 0>>, <<0, 0>> >>

\* ------------------------------------------------- Spec: one region build

BuilderOff ==
  /\ mask_img = None /\ id_num = 0 /\ call = NoCall
  /\ bounds = NoBounds /\ built = None /\ ret = None
FeaturesOff == avg_size = <<0, 0>> /\ feats = <<>>
FilesOff ==
  /\ image_dir = <<>> /\ listing = {} /\ images = NotRead /\ mask_path = <<>>

PaintOff ==
  /\ paint_pc = "off" /\ segment_mask = None /\ superpixels = <<>>
  /\ label_db = <<>> /\ labels = <<>> /\ pred = <<>> /\ predictions = <<>>
  /\ mask = None
MainOff ==
  /\ mode = "off" /\ main_pc = "off" /\ main_done = {} /\ mosaic = None
  /\ train = None /\ classifier = None /\ saved = None /\ shared = None
  /\ tasks = <<>>
  /\ written = {}

Init ==
  /\ mask_img \in [Pixels -> SegIds]
  /\ id_num \in BuildIds
  /\ call = NoCall
  /\ bounds = NoBounds
  /\ built = None
  /\ ret = None
  /\ FeaturesOff /\ FilesOff /\ PaintOff /\ MainOff

\* the state after create_spixel(id_num, img, lbl, mask_img, size) returned
\* or raised; `bounds` is self.bounds when line 28 was reached.
Build(site, img, lbl, size, lbp) ==
  /\ call = NoCall
  /\ call' = [site |-> site, src_img |-> img, lbl_img |-> lbl, avg_size |-> size]
  /\ bounds' = IF checkSuperPixel(img) = "ok"
                THEN getBoundingBox(mask_img, id_num) ELSE NoBounds
  /\ built' = SuperPixel(id_num, img, lbl, mask_img, size, lbp)
  /\ ret' = create_spixel(id_num, img, lbl, mask_img, size, lbp)
  /\ UNCHANGED <<mask_img, id_num, featureVars, fileVars, paintVars, mainVars>>

\* get_mosaic_features, line 96-98: one task of the starmap, with the mosaic
\* annotation as lbl_img
CreateSpixelTrain ==
  \E img \in Images, lbl \in LblImgs, size \in BuildSizes, lbp \in LbpSamples :
    Build("train", img, lbl, size, lbp)

\* classify, line 125: lbl_img is None
CreateSpixelInfer ==
  \E img \in Images, size \in BuildSizes, lbp \in LbpSamples :
    Build("infer", img, None, size, lbp)

Next == CreateSpixelTrain \/ CreateSpixelInfer

Spec == Init /\ [][Next]_vars

\* ------------------------------------------------- SpecFeatures
\* generateFeatures applied to the regions of one run: avg_size is fixed for
\* the run, the pixel content (here: lbp.max() per rotation) varies.

LbpImgs == [1..Len(Thetas) -> LbpVals]

InitFeatures ==
  /\ avg_size \in Sizes
  /\ feats = <<>>
  /\ BuilderOff /\ FilesOff /\ PaintOff /\ MainOff

GenerateFeatures ==
  /\ Len(feats) < MaxRegions
  /\ \E lbp \in LbpImgs : feats' = Append(feats, generateFeatures(avg_size, lbp))
  /\ UNCHANGED <<avg_size, builderVars, fileVars, paintVars, mainVars>>

NextFeatures == GenerateFeatures

SpecFeatures == InitFeatures /\ [][NextFeatures]_vars

\* C7: under one canonical size every built region's feature vector has the
\* same length, 5 times the length of one rotation's descriptors.
C7_FeatureLengthConstant ==
  \A i \in DOMAIN feats, j \in DOMAIN feats :
    /\ feats[i].result = feats[j].result
    /\ \A k \in 1..Len(Thetas) :
         feats[i].result =
           Len(Thetas) * (feats[j].parts[3 * k - 2] + feats[j].parts[3 * k - 1]
                            + feats[j].parts[3 * k])

\* ------------------------------------------------- SpecFiles
\* A string is a sequence of characters; "JPG", "png" and "_mask" stand for
\* runs of characters that hold neither '.' nor '/'.

Chars == {"a", "b", "."}
Exts == {"JPG", "png"}

RECURSIVE StemsOfLen(_)
StemsOfLen(n) ==
  IF n = 0 THEN {<<>>}
  ELSE {Append(s, c) : s \in StemsOfLen(n - 1), c \in Chars}
Stems == UNION {StemsOfLen(n) : n \in 0..MaxStem}
FileNames == {s \o <<".", e>> : s \in Stems, e \in Exts}
Dirs == {<<"d">>, <<"d", "/">>, <<"d", ".", "a", "/">>}

\* os.path.join(a, b) for a non-empty a and a relative b
join(a, b) == IF a[Len(a)] = "/" THEN a \o b ELSE a \o <<"/">> \o b

\* the part of s after its last sep: s.split(sep)[-1]
RECURSIVE lastField(_, _)
lastField(s, sep) ==
  IF s = <<>> THEN <<>>
  ELSE IF s[Len(s)] = sep THEN <<>>
  ELSE Append(lastField(SubSeq(s, 1, Len(s) - 1), sep), s[Len(s)])

\* the part of s before its first sep: s.split(sep)[0]
RECURSIVE firstField(_, _)
firstField(s, sep) ==
  IF s = <<>> THEN <<>>
  ELSE IF s[1] = sep THEN <<>>
  ELSE <<s[1]>> \o firstField(Tail(s), sep)

\* glob's match of a directory entry against "*.JPG": a leading '.' is
\* never matched by '*'
matchesJPG(name) ==
  /\ Len(name) >= 2
  /\ name[1] # "."
  /\ SubSeq(name, Len(name) - 1, Len(name)) = <<".", "JPG">>

get_images(dir, entries) == {join(dir, n) : n \in {e \in entries : matchesJPG(e)}}

get_mask_filepath(dir, img_fn) ==
  LET base_fn == firstField(lastField(img_fn, "/"), ".")
      fn == base_fn \o <<"_mask", ".", "png">>
  IN  join(dir, fn)

masks_dir == <<"results", "/", "masks", "/">>

InitFiles ==
  /\ image_dir \in Dirs
  /\ listing \in {{a, b} : a \in FileNames, b \in FileNames}
  /\ images = NotRead
  /\ mask_path = <<>>
  /\ BuilderOff /\ FeaturesOff /\ PaintOff /\ MainOff

\* main, line 31
GetImages ==
  /\ ~images.read
  /\ images' = [read |-> TRUE, filelist |-> get_images(image_dir, listing)]
  /\ UNCHANGED <<image_dir, listing, mask_path, builderVars, featureVars, paintVars, mainVars>>

\* classify, line 159, in the task of one image of the batch
GetMaskFilepath ==
  /\ images.read
  /\ \E img_fn \in images.filelist \ DOMAIN mask_path :
       mask_path' = mask_path @@ (img_fn :> get_mask_filepath(masks_dir, img_fn))
  /\ UNCHANGED <<image_dir, listing, images, builderVars, featureVars, paintVars, mainVars>>

NextFiles == GetImages \/ GetMaskFilepath

SpecFiles == InitFiles /\ [][NextFiles]_vars

\* C10: two distinct input images of one batch get distinct mask paths.
C10_MaskPathsDistinct ==
  \A f \in DOMAIN mask_path, g \in DOMAIN mask_path :
    f # g => mask_path[f] # mask_path[g]

\* ------------------------------------------------- transfer.py: classify
\* superpixels[i + 1] is the value create_spixel returned for id i.

\* lines 128 and 131: the comprehensions "for pixel in superpixels if pixel
\* is not None"
notNone(pixel) == pixel.kind # "None"
formatFeatures(spx) ==
  LET kept == SelectSeq(spx, notNone) IN [i \in 1..Len(kept) |-> kept[i].features]
formatLabels(spx) ==
  LET kept == SelectSeq(spx, notNone) IN [i \in 1..Len(kept) |-> kept[i].id]

\* line 143: predictions = [shared.label_db[p] for p in pred]
lookupPredictions(db, pr) ==
  IF \E i \in DOMAIN pr : pr[i] \notin DOMAIN db THEN [kind |-> "KeyError"]
  ELSE [kind |-> "ok", predictions |-> [i \in DOMAIN pr |-> db[pr[i]]]]

\* the scatter loop comparing segment_mask with the loop index instead of
\* the region id l
RECURSIVE paintFromByIndex(_, _, _, _, _)
paintFromByIndex(msk, seg, lbls, preds, i) ==
  IF i > Len(lbls) THEN msk
  ELSE paintFromByIndex(
         IF preds[i] # 0
         THEN [p \in DOMAIN msk |-> IF seg[p] = i - 1 THEN preds[i] ELSE msk[p]]
         ELSE msk,
         seg, lbls, preds, i + 1)

\* lines 154-156 from the i-th pair on (i counts from 1)
RECURSIVE paintFrom(_, _, _, _, _)
paintFrom(msk, seg, lbls, preds, i) ==
  IF i > Len(lbls) THEN msk
  ELSE paintFrom(
         IF preds[i] # 0
         THEN [p \in DOMAIN msk |-> IF seg[p] = lbls[i] THEN preds[i] ELSE msk[p]]
         ELSE msk,
         seg, lbls, preds, i + 1)

\* lines 153-156: np.zeros, then the scatter loop
generateMask(seg, lbls, preds) ==
  paintFrom([p \in DOMAIN seg |-> 0], seg, lbls, preds, 1)

\* ------------------------------------------------- SpecPaint
\* classify from line 127 on, for every list of superpixels, every
\* prediction of the classifier and every label dictionary.

Classes == {0, 1}
Labels == {0, 5, 7}
LabelDbs == [Classes -> Labels]
RowMaps == {[p \in Pixels |-> f[p[1]]] : f \in [Rows -> SegIds]}
ColMaps == {[p \in Pixels |-> f[p[2]]] : f \in [Cols -> SegIds]}
PaintMasks == RowMaps \cup ColMaps \cup {[p \in Pixels |-> (p[1] + p[2]) % 2]}
\* what classify reads of a built region: its id and its features
Survivor(i) == [kind |-> "SuperPixel", id |-> i, features |-> 1370]
SuperpixelLists ==
  {[i \in 1..2 |-> IF (i - 1) \in kept THEN Survivor(i - 1) ELSE None] :
     kept \in SUBSET SegIds}

InitPaint ==
  /\ paint_pc = "format"
  /\ segment_mask \in PaintMasks
  /\ superpixels \in SuperpixelLists
  /\ label_db \in LabelDbs
  /\ labels = <<>> /\ pred = <<>> /\ predictions = <<>>
  /\ mask = None
  /\ BuilderOff /\ FeaturesOff /\ FilesOff /\ MainOff

\* lines 127-134
FormatFeatures ==
  /\ paint_pc = "format"
  /\ labels' = formatLabels(superpixels)
  /\ paint_pc' = "predict"
  /\ UNCHANGED <<segment_mask, superpixels, label_db, pred, predictions, mask>>
  /\ UNCHANGED <<builderVars, featureVars, fileVars, mainVars>>

\* lines 138-143: the classifier answers one class per row
Predict ==
  /\ paint_pc = "predict"
  /\ \E pr \in [1..Len(labels) -> Classes] :
       /\ pred' = pr
       /\ predictions' = lookupPredictions(label_db, pr).predictions
  /\ paint_pc' = "mask"
  /\ UNCHANGED <<segment_mask, superpixels, label_db, labels, mask>>
  /\ UNCHANGED <<builderVars, featureVars, fileVars, mainVars>>

\* lines 153-156
GenerateMask ==
  /\ paint_pc = "mask"
  /\ mask' = generateMask(segment_mask, labels, predictions)
  /\ paint_pc' = "write"
  /\ UNCHANGED <<segment_mask, superpixels, label_db, labels, pred, predictions>>
  /\ UNCHANGED <<builderVars, featureVars, fileVars, mainVars>>

NextPaint == FormatFeatures \/ Predict \/ GenerateMask

SpecPaint == InitPaint /\ [][NextPaint]_vars

Survived(r) == \E i \in DOMAIN labels : labels[i] = r
\* the class the classifier predicted for the surviving region r
PredOf(r) == pred[CHOOSE i \in DOMAIN labels : labels[i] = r]

firstRaised(spx) ==
  LET bad == {i \in DOMAIN spx : spx[i].kind \notin {"None", "SuperPixel"}}
  IN  IF bad = {} THEN "" ELSE spx[CHOOSE i \in bad : \A j \in bad : i <= j].kind

\* get_mosaic_features from line 95 on: the starmap of create_spixel over
\* range(num_spixels), then the three comprehensions; line 105 reads
\* pixel.id of every entry, None included.
get_mosaic_features(img, lbl, seg, size, lbps) ==
  LET spx == [i \in 1..seg.num |->
                create_spixel(i - 1, img, lbl, seg.map, size, lbps[i])]
  IN  IF firstRaised(spx) # "" THEN [kind |-> firstRaised(spx)]
      ELSE IF \E i \in DOMAIN spx : ~notNone(spx[i]) THEN [kind |-> "AttributeError"]
      ELSE [kind |-> "ok",
            features |-> formatFeatures(spx),
            labels |-> formatLabels(spx),
            avg_size |-> size,
            id_label_db |-> [id \in {spx[i].id : i \in DOMAIN spx} |->
                               spx[id + 1].label]]

\* classify, line 125: the list of create_spixel(i, img, None, ...)
extractSuperpixels(img, seg, size, lbps) ==
  LET spx == [i \in 1..seg.num |->
                create_spixel(i - 1, img, None, seg.map, size, lbps[i])]
  IN  IF firstRaised(spx) # "" THEN [kind |-> firstRaised(spx)]
      ELSE [kind |-> "ok", superpixels |-> spx]

\* main without the save_classifier call of line 48
mainNextSkipSave(pc) ==
  CASE pc = "get_mosaic_features" -> "get_preprocessor"
    [] pc = "get_preprocessor" -> "save_info"
    [] pc = "save_info" -> "train_svm"
    [] pc = "train_svm" -> "classify"
    [] pc = "save_classifier" -> "classify"
    [] pc = "load_info" -> "load_classifier"
    [] pc = "load_classifier" -> "classify"
    [] pc = "classify" -> "starmap"
    [] pc = "starmap" -> "close"
    [] pc = "close" -> "done"

\* the statement main runs after the one at pc, when that one returns
mainNext(pc) ==
  CASE pc = "get_mosaic_features" -> "get_preprocessor"
    [] pc = "get_preprocessor" -> "save_info"
    [] pc = "save_info" -> "train_svm"
    [] pc = "train_svm" -> "save_classifier"
    [] pc = "save_classifier" -> "classify"
    [] pc = "load_info" -> "load_classifier"
    [] pc = "load_classifier" -> "classify"
    [] pc = "classify" -> "starmap"
    [] pc = "starmap" -> "close"
    [] pc = "close" -> "done"

\* ------------------------------------------------- SpecMain

SegOne == [kind |-> "seg", map |-> [p \in Pixels |-> 0], num |-> 1]
\* num_spixels counts an id that occurs nowhere
SegAbsent == [kind |-> "seg", map |-> [p \in Pixels |-> 0], num |-> 2]
\* every region is at most one column wide, or lies in columns 0..1
SegThin ==
  [kind |-> "seg", map |-> [p \in Pixels |-> IF p[2] <= 1 THEN 0 ELSE p[2] - 1],
   num |-> MaxCol]
SegChecker == [kind |-> "seg", map |-> [p \in Pixels |-> (p[1] + p[2]) % 2], num |-> 2]
SegSamples == {SegOne, SegAbsent, SegThin, SegChecker}
SegmentationError == [kind |-> "SegmentationError"]

ImgBlank == [any |-> FALSE, shape |-> <<21, 21, 3>>]
MosaicImages == {ImgOk, ImgBlank}
BatchImages == {ImgOk, ImgBlank}
\* lbp.max() per rotation for the regions of one image: region i has
\* i % (MaxLbp + 1)
RegionLbps(n) == [i \in 1..n |-> [k \in 1..Len(Thetas) |-> (i - 1) % (MaxLbp + 1)]]

NoBundle == [info |-> None, svm |-> None]
bundleOf(t) ==
  [info |-> [kind |-> "info", avg_size |-> t.avg_size, label_db |-> t.id_label_db],
   svm |-> [kind |-> "svm", classes |-> {t.labels[i] : i \in DOMAIN t.labels}]]
\* the bundles an earlier WRITE invocation can have left
TrainBundles ==
  {bundleOf(t) : t \in
     {r \in {get_mosaic_features(ImgOk, lbl, seg, size, RegionLbps(seg.num)) :
               lbl \in LblImgs, seg \in SegSamples, size \in BuildSizes} :
        r.kind = "ok"}}

IdleTask ==
  [pc |-> "idle", steps |-> 0, img |-> ImgOk, seg |-> None, superpixels |-> <<>>,
   labels |-> <<>>, pred |-> <<>>, mask |-> None, exc |-> ""]

InitMain ==
  /\ mode \in {"WRITE", "READ"}
  /\ main_pc = IF mode = "WRITE" THEN "get_mosaic_features" ELSE "load_info"
  /\ main_done = {}
  /\ mosaic = None
  /\ train = None
  /\ classifier = None
  /\ saved \in IF mode = "WRITE" THEN {NoBundle} ELSE {NoBundle} \cup TrainBundles
  /\ shared = None
  /\ tasks = [i \in 1..NumImages |-> IdleTask]
  /\ written = {}
  /\ BuilderOff /\ FeaturesOff /\ FilesOff /\ PaintOff

otherVars == <<builderVars, featureVars, fileVars, paintVars>>

\* main, line 36
GetMosaicFeatures ==
  /\ main_pc = "get_mosaic_features"
  /\ \E img \in MosaicImages, lbl \in LblImgs, seg \in SegSamples, size \in BuildSizes :
       /\ mosaic' = [kind |-> "mosaic", img |-> img, lbl |-> lbl, seg |-> seg,
                      size |-> size]
       /\ train' = get_mosaic_features(img, lbl, seg, size, RegionLbps(seg.num))
  /\ main_pc' = IF train'.kind = "ok" THEN mainNext(main_pc) ELSE "raised"
  /\ main_done' = IF train'.kind = "ok" THEN main_done \cup {main_pc} ELSE main_done
  /\ UNCHANGED <<mode, classifier, saved, shared, tasks, written, otherVars>>

\* main, lines 40-41
GetPreprocessor ==
  /\ main_pc = "get_preprocessor"
  /\ main_pc' = mainNext(main_pc)
  /\ main_done' = main_done \cup {main_pc}
  /\ UNCHANGED <<mode, mosaic, train, classifier, saved, shared, tasks, written, otherVars>>

\* main, line 44
SaveInfo ==
  /\ main_pc = "save_info"
  /\ saved' = [saved EXCEPT !.info = bundleOf(train).info]
  /\ main_pc' = mainNext(main_pc)
  /\ main_done' = main_done \cup {main_pc}
  /\ UNCHANGED <<mode, mosaic, train, classifier, shared, tasks, written, otherVars>>

\* main, line 47
TrainSvm ==
  /\ main_pc = "train_svm"
  /\ classifier' = bundleOf(train).svm
  /\ main_pc' = mainNext(main_pc)
  /\ main_done' = main_done \cup {main_pc}
  /\ UNCHANGED <<mode, mosaic, train, saved, shared, tasks, written, otherVars>>

\* main, line 48
SaveClassifier ==
  /\ main_pc = "save_classifier"
  /\ saved' = [saved EXCEPT !.svm = classifier]
  /\ main_pc' = mainNext(main_pc)
  /\ main_done' = main_done \cup {main_pc}
  /\ UNCHANGED <<mode, mosaic, train, classifier, shared, tasks, written, otherVars>>

\* main, line 55: open() raises when the info file is missing
LoadInfo ==
  /\ main_pc = "load_info"
  /\ main_pc' = IF notNone(saved.info) THEN mainNext(main_pc) ELSE "raised"
  /\ main_done' = IF notNone(saved.info) THEN main_done \cup {main_pc} ELSE main_done
  /\ UNCHANGED <<mode, mosaic, train, classifier, saved, shared, tasks, written, otherVars>>

\* main, line 59
LoadClassifier ==
  /\ main_pc = "load_classifier"
  /\ classifier' = saved.svm
  /\ main_pc' = IF notNone(saved.svm) THEN mainNext(main_pc) ELSE "raised"
  /\ main_done' = IF notNone(saved.svm) THEN main_done \cup {main_pc} ELSE main_done
  /\ UNCHANGED <<mode, mosaic, train, saved, shared, tasks, written, otherVars>>

\* main, lines 63-74: the shared Namespace, the pool, and the starmap of
\* classify over the images; main then waits in starmap
Classify ==
  /\ main_pc = "classify"
  /\ shared' = IF mode = "WRITE"
                THEN [avg_size |-> train.avg_size, label_db |-> train.id_label_db]
                ELSE [avg_size |-> saved.info.avg_size, label_db |-> saved.info.label_db]
  /\ tasks' = [i \in DOMAIN tasks |-> [tasks[i] EXCEPT !.pc = "queued"]]
  /\ main_pc' = mainNext(main_pc)
  /\ main_done' = main_done \cup {main_pc}
  /\ UNCHANGED <<mode, mosaic, train, classifier, saved, written, otherVars>>

Running == {i \in DOMAIN tasks :
              tasks[i].pc \in {"extract", "format", "predict", "mask", "write"}}
PoolAlive == main_pc = "starmap"
mainFixed == <<mode, main_pc, main_done, mosaic, train, classifier, saved, shared>>

\* classify, lines 116-121, in a free worker of the pool
TaskSegment(i) ==
  /\ PoolAlive /\ tasks[i].pc = "queued"
  /\ Cardinality(Running) < Processors
  /\ \E img \in BatchImages, out \in SegSamples \cup {SegmentationError} :
       tasks' = [tasks EXCEPT ![i] =
                   IF out.kind = "seg"
                   THEN [@ EXCEPT !.pc = "extract", !.steps = 1, !.img = img, !.seg = out]
                   ELSE [@ EXCEPT !.pc = "failed", !.steps = 1, !.img = img,
                                  !.exc = out.kind]]
  /\ UNCHANGED <<mainFixed, written, otherVars>>

\* classify, line 125
TaskExtract(i) ==
  /\ PoolAlive /\ tasks[i].pc = "extract"
  /\ LET x == extractSuperpixels(tasks[i].img, tasks[i].seg, shared.avg_size,
                                  RegionLbps(tasks[i].seg.num))
     IN  tasks' = [tasks EXCEPT ![i] =
                       IF x.kind = "ok"
                       THEN [@ EXCEPT !.pc = "format", !.steps = 2,
                                      !.superpixels = x.superpixels]
                       ELSE [@ EXCEPT !.pc = "failed", !.steps = 2, !.exc = x.kind]]
  /\ UNCHANGED <<mainFixed, written, otherVars>>

\* classify, lines 127-134
TaskFormat(i) ==
  /\ PoolAlive /\ tasks[i].pc = "format"
  /\ tasks' = [tasks EXCEPT ![i] =
                 [@ EXCEPT !.pc = "predict", !.steps = 3,
                           !.labels = formatLabels(tasks[i].superpixels)]]
  /\ UNCHANGED <<mainFixed, written, otherVars>>

\* classify, lines 138-143: the classifier answers one of its classes per
\* row, or fails
TaskPredict(i) ==
  /\ PoolAlive /\ tasks[i].pc = "predict"
  /\ \E ok \in BOOLEAN, pr \in [1..Len(tasks[i].labels) -> classifier.classes] :
       tasks' = [tasks EXCEPT ![i] =
                   IF ok /\ lookupPredictions(shared.label_db, pr).kind = "ok"
                   THEN [@ EXCEPT !.pc = "mask", !.steps = 4, !.pred = pr]
                   ELSE [@ EXCEPT !.pc = "failed", !.steps = 4,
                                  !.exc = IF ok THEN "KeyError" ELSE "PredictionError"]]
  /\ UNCHANGED <<mainFixed, written, otherVars>>

\* classify, lines 153-156
TaskGenerateMask(i) ==
  /\ PoolAlive /\ tasks[i].pc = "mask"
  /\ tasks' = [tasks EXCEPT ![i] =
                 [@ EXCEPT !.pc = "write", !.steps = 5,
                           !.mask = generateMask(
                              tasks[i].seg.map, tasks[i].labels,
                              lookupPredictions(shared.label_db, tasks[i].pred).predictions)]]
  /\ UNCHANGED <<mainFixed, written, otherVars>>

\* classify, lines 159-162
TaskWrite(i) ==
  /\ PoolAlive /\ tasks[i].pc = "write"
  /\ written' = written \cup {i}
  /\ tasks' = [tasks EXCEPT ![i] = [@ EXCEPT !.pc = "done", !.steps = 6]]
  /\ UNCHANGED <<mainFixed, otherVars>>

\* main, line 74: starmap returns the masks when every task returned
StarmapReturn ==
  /\ PoolAlive
  /\ \A i \in DOMAIN tasks : tasks[i].pc = "done"
  /\ main_pc' = mainNext(main_pc)
  /\ main_done' = main_done \cup {main_pc}
  /\ UNCHANGED <<mode, mosaic, train, classifier, saved, shared, tasks, written, otherVars>>

\* main, line 74: starmap re-raises a task's exception; nothing in main
\* catches it, line 75 is not reached, and the pool's worker processes end
\* with the interpreter, whatever they were doing.
StarmapRaise ==
  /\ PoolAlive
  /\ \E i \in DOMAIN tasks : tasks[i].pc = "failed"
  /\ main_pc' = "raised"
  /\ tasks' = [i \in DOMAIN tasks |->
                 IF tasks[i].pc \in {"done", "failed"} THEN tasks[i]
                 ELSE [tasks[i] EXCEPT !.pc = "killed"]]
  /\ UNCHANGED <<mode, main_done, mosaic, train, classifier, saved, shared, written, otherVars>>

\* main, line 75
Close ==
  /\ main_pc = "close"
  /\ main_pc' = mainNext(main_pc)
  /\ main_done' = main_done \cup {main_pc}
  /\ UNCHANGED <<mode, mosaic, train, classifier, saved, shared, tasks, written, otherVars>>

NextMain ==
  \/ GetMosaicFeatures \/ GetPreprocessor \/ SaveInfo \/ TrainSvm \/ SaveClassifier
  \/ LoadInfo \/ LoadClassifier \/ Classify
  \/ \E i \in 1..NumImages :
       \/ TaskSegment(i) \/ TaskExtract(i) \/ TaskFormat(i) \/ TaskPredict(i)
       \/ TaskGenerateMask(i) \/ TaskWrite(i)
  \/ StarmapReturn \/ StarmapRaise \/ Close

SpecMain == InitMain /\ [][NextMain]_vars

\* ------------------------------------------------- properties of main

LbpZero == [k \in 1..Len(Thetas) |-> 0]
\* what SuperPixel(...) does for each id of a segmentation
Outcomes(img, lbl, seg, size) ==
  [i \in 1..seg.num |-> SuperPixel(i - 1, img, lbl, seg.map, size, LbpZero).kind]
\* every region of the batch is either built or fails validation
ValidationOnly(img, lbl, seg, size) ==
  \A i \in 1..seg.num : Outcomes(img, lbl, seg, size)[i] \in {"SuperPixel", "ValueError"}
IsBuilt(k) == k = "SuperPixel"
\* the ids of the regions that are built, in order
BuiltIds(img, lbl, seg, size) ==
  LET o == Outcomes(img, lbl, seg, size)
      idx == SelectSeq([i \in 1..seg.num |-> i], LAMBDA i : IsBuilt(o[i]))
  IN  [n \in 1..Len(idx) |-> idx[n] - 1]

\* C2: in the training extraction and in the per-image extraction, regions
\* that fail validation do not abort the batch: they are absent from the
\* features, the ids and the label data, and every other region is present.
C2_FailedRegionsDropped ==
  /\ (notNone(mosaic) /\ ValidationOnly(mosaic.img, mosaic.lbl, mosaic.seg, mosaic.size))
       => /\ train.kind = "ok"
          /\ train.labels = BuiltIds(mosaic.img, mosaic.lbl, mosaic.seg, mosaic.size)
          /\ Len(train.features) = Len(train.labels)
          /\ DOMAIN train.id_label_db = {train.labels[n] : n \in DOMAIN train.labels}
  /\ \A i \in DOMAIN tasks :
       (tasks[i].steps >= 2
          /\ ValidationOnly(tasks[i].img, None, tasks[i].seg, shared.avg_size))
       => /\ ~(tasks[i].pc = "failed" /\ tasks[i].steps = 2)
          /\ tasks[i].steps >= 3 =>
                tasks[i].labels = BuiltIds(tasks[i].img, None, tasks[i].seg, shared.avg_size)

MainEnded == main_pc \in {"raised", "done"}

\* C5: when the task of one image fails, every other image's task of the
\* batch still runs to completion and its mask is written.
C5_SiblingTasksComplete ==
  (MainEnded /\ \E i \in DOMAIN tasks : tasks[i].pc = "failed")
    => \A j \in DOMAIN tasks :
         tasks[j].pc # "failed" => (tasks[j].pc = "done" /\ j \in written)

\* C6 as stated: in a TRAIN (WRITE) invocation persisting the bundle is the
\* last step and no per-image step is executed.
C6_TrainTerminal ==
  mode = "WRITE" =>
    /\ "classify" \notin main_done
    /\ \A i \in DOMAIN tasks : tasks[i].steps = 0

\* C6 (amended): in a TRAIN (WRITE) invocation the info artifact is
\* persisted after the preprocessor is fitted and the model artifact after
\* the model is trained; the image batch then runs in the same invocation,
\* and no per-image step is executed before both artifacts are persisted.
C6_PersistBeforeClassify ==
  mode = "WRITE" =>
    /\ "save_info" \in main_done => "get_preprocessor" \in main_done
    /\ "save_classifier" \in main_done => "train_svm" \in main_done
    /\ ("classify" \in main_done \/ \E i \in DOMAIN tasks : tasks[i].steps > 0)
         => /\ {"save_info", "save_classifier"} \subseteq main_done
            /\ notNone(saved.info) /\ notNone(saved.svm)

\* a WRITE invocation in which an image task has run a step
C6_Witness ==
  /\ mode = "WRITE"
  /\ notNone(saved.info) /\ notNone(saved.svm)
  /\ \E i \in DOMAIN tasks : tasks[i].steps > 0

\* ------------------------------------------------- properties of the builder

Returned == call # NoCall
Occurs(m, id) == \E p \in Pixels : m[p] = id
MemberRows(m, id) == {i \in Rows : RowAny(m, id, i)}
MemberCols(m, id) == {j \in Cols : ColAny(m, id, j)}
Least(S) == CHOOSE x \in S : \A y \in S : x <= y
Greatest(S) == CHOOSE x \in S : \A y \in S : x >= y
\* the box of the smallest / largest row and column index that contains id
ExactBox(m, id) ==
  << <<Least(MemberRows(m, id)), Least(MemberCols(m, id))>>,
     <<Greatest(MemberRows(m, id)), Greatest(MemberCols(m, id))>> >>

\* C1: for every id map and every id that occurs in it, the bounding box the
\* builder computes is the box of the smallest and largest row and column
\* index that contains the id (gaps and row 0 / column 0 included).
C1_BoundingBoxExact ==
  (Returned /\ checkSuperPixel(call.src_img) = "ok" /\ Occurs(mask_img, id_num))
    => bounds = ExactBox(mask_img, id_num)

\* C4: in INFER mode (no ground-truth map) a region whose image and
\* bounding box pass validation is built successfully.
C4_InferBuildSucceeds ==
  (Returned /\ call.site = "infer" /\ checkSuperPixel(call.src_img) = "ok"
     /\ checkBounds(bounds))
    => ret.kind = "SuperPixel"

\* C8: every successfully built region has a cropped mask with at least
\* one true pixel.
C8_MaskNonEmpty ==
  (Returned /\ ret.kind = "SuperPixel") => \E p \in DOMAIN ret.mask : ret.mask[p]

\* a region is built although some of its pixels lie on the maximum row or
\* column of its bounding box, which the crop leaves out
C8_Witness ==
  /\ Returned /\ ret.kind = "SuperPixel"
  /\ \E p \in DOMAIN ret.mask : ret.mask[p]
  /\ \E p \in Pixels : /\ mask_img[p] = id_num
                        /\ (p[1] = ret.bounds[2][1] \/ p[2] = ret.bounds[2][2])

\* C9: a region is returned only when the computed box has min < max on
\* both axes; when the computed box is degenerate (the id occurs nowhere,
\* rows [0,0], ...) construction fails with ValueError and create_spixel
\* returns no region.
C9_DegenerateBoxRejected ==
  Returned =>
    /\ ret.kind = "SuperPixel" =>
          /\ ret.bounds[1][1] < ret.bounds[2][1]
          /\ ret.bounds[1][2] < ret.bounds[2][2]
    /\ LET b == getBoundingBox(mask_img, id_num)
       IN  (b[1][1] >= b[2][1] \/ b[1][2] >= b[2][2])
             => (built.kind = "ValueError" /\ ret = None)

\* the id occurs nowhere in the map, the image is valid, and the call
\* returned None after "No region found."
C9_Witness ==
  /\ Returned /\ checkSuperPixel(call.src_img) = "ok"
  /\ ~Occurs(mask_img, id_num)
  /\ built = [kind |-> "ValueError", msg |-> "No region found."]
  /\ ret = None

====
